---------------------------- MODULE Spec2Model ----------------------------
(***************************************************************************)
(* State-machine model of the TikTok upload client:                        *)
(*   src/tiktok_uploader/tiktok.py   upload_video, upload_to_tiktok        *)
(*   src/music_video_bot.py          generate_music_video (the caller)     *)
(*                                                                         *)
(* Representation.  A Python string is represented by its length: every    *)
(* string operation of the modelled code is a concatenation with single    *)
(* blanks or a prefix slice s[:n], so a text is always a prefix of the     *)
(* text the job started with and its length determines it.  A dictionary   *)
(* key that may be absent (schedule_time in the payload) is a sequence of  *)
(* length 0 or 1.  The remote server, the transport and the signature      *)
(* script are the environment: every request draws its outcome from the    *)
(* outcomes the code distinguishes.                                        *)
(***************************************************************************)
EXTENDS Integers, Sequences, FiniteSets, TLC

(* ------------------------------ constants ------------------------------ *)

\* len(full_text) > 2200 / len(title) > 2200
max_text_length == 2200
\* keywords[:len(keywords) - excess - 10] in the status_code 5 repair
repair_buffer == 10
\* keywords / description buffer of the pre-upload truncation
text_buffer == 50
\* title buffer of the pre-upload truncation
title_buffer == 20
\* schedule window of upload_video, in seconds
min_schedule == 900
max_schedule == 864000
\* publish loop
max_attempts == 3
\* chunk engine
max_retries == 5
\* time.sleep(2) before the next publish attempt
retry_pause == 2
\* the cap of the wait between two tries of a chunk
max_wait == 30
\* Retry(total=3, ...) of the adapter mounted on the session
retry_total == 3
chunk_size == 5242880

(* -------------------------------- bounds ------------------------------- *)

\* a short description / keyword string (longer than repair_buffer)
SmallLen == 11
\* distance of the "nearly full" title from max_text_length
NearGap == 10
\* files of up to MaxFullChunks full chunks, plus one byte
MaxFullChunks == 1
\* the reading of int(time.time()) when the payload is built
Clock == 1000
\* re-sends by the mounted adapter followed per call (at most retry_total)
MaxResends == 1
\* RateLimiter: the largest max_operations, the time_window and the max_wait
\* of the calls (in ticks of the clock), the last tick, the number of threads
MaxOperations == 2
time_window == 3
max_wait_arg == 1
MaxTime == 4
NumThreads == 2
Threads == 1..NumThreads
\* resource_manager.py 301 and 303: the longest sleep and the sleep taken when
\* nothing is recorded
sleep_cap == 5
sleep_empty == 1

\* the last but one is the title that, with a short keyword string and no
\* description, fills the budget exactly
TitleLens == {0, max_text_length - NearGap, max_text_length - 1,
              max_text_length, max_text_length - SmallLen - 2,
              max_text_length + 1}
DescLens == {0, SmallLen, max_text_length + 1}
KeywordLens == {0, SmallLen, max_text_length + 1}
ScheduleTimes == {0, min_schedule - 1, min_schedule, max_schedule + 1}
VisibilityTypes == {0, 1}
FileSizes == {0, 1} \cup
             UNION {{k * chunk_size, k * chunk_size + 1} : k \in 1..MaxFullChunks}
CookieNames == {"sessionid", "tt-target-idc"}

(* ------------------------------ pure helpers --------------------------- *)

Min(a, b) == IF a <= b THEN a ELSE b
Max(a, b) == IF a >= b THEN a ELSE b

\* len(s[:n]) for a string of length len: a negative n counts from the end
Slice(len, n) == IF n >= 0 THEN Min(n, len) ELSE Max(len + n, 0)

\* len(title + " " + description + " " + keywords)
FullText(t, d, k) == t + 1 + d + 1 + k

VARIABLES
  cookies,            \* names of the cookies in the stored session file
  file_size,          \* len(video_content) of the video on disk
  entry,              \* "none", "bot" (generate_music_video) or "direct"
  pc,                 \* position of the job in upload_video / upload_to_tiktok
  result,             \* "pending", "True", "False", "None", "raise", "exit"
  title, description, keywords,   \* the three texts (lengths)
  schedule_time, visibility_type,
  dc_id,              \* "none", "stored" or "useast2a"
  sent,               \* kinds of HTTP request issued so far
  chunks, crcs, i, retry_count, chunk_uploaded,  \* locals of upload_to_tiktok
  tries,              \* transfer requests issued for the current chunk
  transferred, acked, \* part numbers requested / acknowledged with 200
  transferCrcs,       \* <<part number, Content-Crc32>> of the transfer requests
  manifest,           \* the body of the finish request (<<>> before it)
  msToken,            \* whether the cookie jar holds msToken
  attempt, uploaded, actually_scheduled, data,  \* locals of the publish loop
  repairs,            \* text truncations applied by the status_code 5 repair
  oracleCalls,        \* invocations of subprocess_jsvmp
  signatures,         \* what the last invocation handed back ("unset" before)
  postLog,            \* the publish POSTs sent, in order
  disposition,        \* "none", "scheduled" or "immediate" (the success line)
  original_schedule_time, \* the offset as passed (tiktok.py 260)
  slept,              \* seconds of time.sleep in the step just taken (0: none)
  refreshed,          \* refresh requests sent in the current publish attempt
  sig_url,            \* what the signatures in hand were computed over, and when
  stepLog,            \* the fatal steps taken, in order, with what came back
  wire_sends,         \* requests put on the wire by the step just taken
  \* RateLimiter (videogen/resource_manager.py) and the threads that use it
  max_operations,     \* self.max_operations
  operations,         \* self.operations: the timestamps recorded
  lock,               \* the thread holding self.lock (0: free)
  now,                \* the reading of time.time()
  thread_pc,          \* where each thread is in wait_if_needed
  start_time,         \* its local start_time
  wake                \* when its time.sleep ends

textVars == <<title, description, keywords>>
argVars == <<schedule_time, visibility_type>>
chunkVars == <<chunks, crcs, i, retry_count, chunk_uploaded, tries, transferred,
               acked, transferCrcs, manifest>>
publishVars == <<msToken, attempt, uploaded, actually_scheduled, data, repairs,
                 oracleCalls, signatures, postLog, disposition,
                 original_schedule_time, refreshed, sig_url>>
uploadVars == <<cookies, file_size, entry, pc, result, textVars, argVars, dc_id,
                sent, chunkVars, publishVars, slept, stepLog, wire_sends>>
rateVars == <<max_operations, operations, lock, now, thread_pc, start_time,
              wake>>
vars == <<uploadVars, rateVars>>

\* resource_manager.py 251-262: RateLimiter.__init__; no thread has called
\* wait_if_needed yet
RateLimiter(m) ==
  /\ max_operations = m
  /\ operations = <<>>
  /\ lock = 0
  /\ now = 0
  /\ thread_pc = [t \in Threads |-> "idle"]
  /\ start_time = [t \in Threads |-> 0]
  /\ wake = [t \in Threads |-> 0]

\* the uploader before generate_metadata or generate_music_video is called
UploadIdle ==
  /\ cookies \in SUBSET CookieNames
  /\ file_size \in FileSizes
  /\ entry = "none"
  /\ pc = "idle"
  /\ result = "pending"
  /\ title = 0 /\ description = 0 /\ keywords = 0
  /\ schedule_time = 0 /\ visibility_type = 0
  /\ dc_id = "none"
  /\ sent = {}
  /\ chunks = <<>> /\ crcs = <<>> /\ i = 0 /\ retry_count = 0
  /\ chunk_uploaded = FALSE
  /\ tries = 0 /\ transferred = {} /\ acked = {}
  /\ transferCrcs = {} /\ manifest = <<>>
  /\ msToken = FALSE
  /\ attempt = 0 /\ uploaded = FALSE /\ actually_scheduled = FALSE
  /\ repairs = 0
  /\ data = [text |-> 0, schedule_time |-> <<>>, rest |-> <<>>]
  /\ oracleCalls = 0
  /\ signatures = "unset"
  /\ postLog = <<>>
  /\ disposition = "none"
  /\ original_schedule_time = 0
  /\ slept = 0
  /\ refreshed = 0
  /\ sig_url = [attempt |-> 0, path |-> "none", msToken |-> FALSE]
  /\ stepLog = <<>>
  /\ wire_sends = 0

Init == UploadIdle /\ RateLimiter(MaxOperations)

\* a return statement (or an exception leaving upload_video) ends the job
Return(r) == pc' = "done" /\ result' = r /\ slept' = 0


(* ------------------- generate_music_video (the caller) ----------------- *)

\* music_video_bot.py 163-191: the pre-upload truncation, as the three lengths
\* handed on.  `keywords = ""; excess -= len(keywords)` subtracts the length
\* of the string just emptied, and likewise for the description.
TruncateBeforeUpload(t, d, k) ==
  LET full == FullText(t, d, k)
      excess == full - max_text_length
  IN IF full > max_text_length
     THEN IF k > excess + text_buffer
          THEN [title |-> t, description |-> d,
                keywords |-> Slice(k, k - excess - text_buffer)]
          ELSE LET k1 == 0
                   excess1 == excess - k1
               IN IF d > excess1 + text_buffer
                  THEN [title |-> t,
                        description |-> Slice(d, d - excess1 - text_buffer),
                        keywords |-> k1]
                  ELSE LET d1 == 0
                           excess2 == excess1 - d1
                       IN IF t > excess2 + title_buffer
                          THEN [title |-> Slice(t, t - excess2 - title_buffer),
                                description |-> d1, keywords |-> k1]
                          ELSE [title |-> t, description |-> d1, keywords |-> k1]
     ELSE [title |-> t, description |-> d, keywords |-> k]

\* music_video_bot.py 105-161: the title, description and keywords are
\* generated (by the model or from the defaults)
GenerateMetadata ==
  /\ pc = "idle"
  /\ UNCHANGED rateVars
  /\ wire_sends' = 0 /\ UNCHANGED stepLog
  /\ title' \in TitleLens
  /\ description' \in DescLens
  /\ keywords' \in KeywordLens
  /\ entry' = "bot"
  /\ pc' = "truncate" /\ slept' = 0
  /\ UNCHANGED <<cookies, file_size, result, argVars, dc_id, sent, chunkVars,
                 publishVars>>

\* music_video_bot.py 163-225: the metadata is truncated and handed to
\* tiktok.upload_video with schedule_time=0 and visibility_type=0
GenerateMusicVideo ==
  /\ pc = "truncate"
  /\ UNCHANGED rateVars
  /\ wire_sends' = 0 /\ UNCHANGED stepLog
  /\ LET cut == TruncateBeforeUpload(title, description, keywords)
     IN /\ title' = cut.title
        /\ description' = cut.description
        /\ keywords' = cut.keywords
  /\ schedule_time' = 0
  /\ visibility_type' = 0
  /\ pc' = "load_session" /\ slept' = 0
  /\ UNCHANGED <<cookies, file_size, entry, result, dc_id, sent, chunkVars,
                 publishVars>>

\* any other caller of upload_video (the caller-facing contract)
CallUploadVideo ==
  /\ pc = "idle"
  /\ UNCHANGED rateVars
  /\ wire_sends' = 0 /\ UNCHANGED stepLog
  /\ title' \in TitleLens
  /\ description' \in DescLens
  /\ keywords' \in KeywordLens
  /\ schedule_time' \in ScheduleTimes
  /\ visibility_type' \in VisibilityTypes
  /\ entry' = "direct"
  /\ pc' = "load_session" /\ slept' = 0
  /\ UNCHANGED <<cookies, file_size, result, dc_id, sent, chunkVars, publishVars>>

(* ------------------------------ upload_video --------------------------- *)

\* the check made on the datacenter cookie instead of the session cookie
SessionMissing_WrongCookie(cs) == "tt-target-idc" \notin cs

\* tiktok.py 62, 65: session_id is None when no cookie is named sessionid
SessionMissing(cs) == "sessionid" \notin cs

\* no datacenter id at all when the cookie is missing
DatacenterId_NoFallback(cs) == IF "tt-target-idc" \in cs THEN "stored" ELSE "none"

\* tiktok.py 63, 69-72: the stored tt-target-idc, or "useast2a" with a warning
DatacenterId(cs) == IF "tt-target-idc" \in cs THEN "stored" ELSE "useast2a"

\* tiktok.py 61-72: the session cookies; no sessionid is sys.exit(1),
\* no tt-target-idc falls back to "useast2a"
LoadSession ==
  /\ pc = "load_session"
  /\ UNCHANGED rateVars
  /\ wire_sends' = 0 /\ UNCHANGED stepLog
  /\ IF SessionMissing(cookies)
     THEN Return("exit") /\ UNCHANGED dc_id
     ELSE /\ dc_id' = DatacenterId(cookies)
          /\ pc' = "validate" /\ slept' = 0
          /\ UNCHANGED result
  /\ UNCHANGED <<cookies, file_size, entry, textVars, argVars, sent, chunkVars,
                 publishVars>>

\* the lower limit of the window left out of the check
ScheduleOutOfWindow_UpperOnly(st) == st # 0 /\ st > max_schedule

\* tiktok.py 76: `schedule_time and (schedule_time > 864000 or
\* schedule_time < 900)`
ScheduleOutOfWindow(st) ==
  st # 0 /\ (st > max_schedule \/ st < min_schedule)

\* a title that just fills the budget turned away as well
TitleTooLong_AtLimit(t) == t >= max_text_length

\* tiktok.py 79: if len(title) > 2200
TitleTooLong(t) == t > max_text_length

\* tiktok.py 76-84: the three parameter checks
ValidationPasses ==
  /\ ~ScheduleOutOfWindow(schedule_time)
  /\ ~TitleTooLong(title)
  /\ ~(schedule_time # 0 /\ visibility_type = 1)

\* tiktok.py 78, 81, 84: `return False` under each of the three checks
ValidationResult == "False"

Validate ==
  /\ pc = "validate"
  /\ UNCHANGED rateVars
  /\ wire_sends' = 0 /\ UNCHANGED stepLog
  /\ IF ValidationPasses
     THEN pc' = "project" /\ slept' = 0 /\ UNCHANGED result
     ELSE Return(ValidationResult)
  /\ UNCHANGED <<cookies, file_size, entry, textVars, argVars, dc_id, sent, chunkVars,
                 publishVars>>

\* what a request made through requests can come to: a response that
\* assert_success accepts, one it rejects, or an exception of the transport
Outcomes == {"ok", "rejected", "exception"}

\* a rejected response taken for a success
Step_RejectionIgnored(outcome, next) ==
  /\ stepLog' = Append(stepLog, [step |-> pc, outcome |-> outcome])
  /\ IF outcome \in {"ok", "rejected"} THEN pc' = next /\ slept' = 0 /\ UNCHANGED result
     ELSE Return("raise")

\* the three ways a fatal step of upload_video ends or goes on (`if not
\* assert_success(url, r): return False`); stepLog records the step
Step(outcome, next) ==
  /\ stepLog' = Append(stepLog, [step |-> pc, outcome |-> outcome])
  /\ IF outcome = "ok" THEN pc' = next /\ slept' = 0 /\ UNCHANGED result
     ELSE IF outcome = "rejected" THEN Return("False")
     ELSE Return("raise")

\* tiktok.py 95-111: the adapter mounted on the session sends a request again,
\* up to retry_total times, on a 429/5xx response or a connection error, so
\* one call of session.get/post/head/request is this many requests on the wire
SessionSends == 1..(1 + Min(retry_total, MaxResends))

\* tiktok.py 149, 153: requests.post uses no mounted adapter
PlainSends == {1}

\* tiktok.py 126-131: session.post(project_url)
CreateProject ==
  /\ pc = "project"
  /\ UNCHANGED rateVars
  /\ wire_sends' \in SessionSends
  /\ sent' = sent \cup {"project"}
  /\ \E outcome \in Outcomes : Step(outcome, "auth")
  /\ UNCHANGED <<cookies, file_size, entry, textVars, argVars, dc_id, chunkVars,
                 publishVars>>

(* ----------------------------- upload_to_tiktok ------------------------ *)

\* tiktok.py 479-482: session.get(upload auth)
UploadAuth ==
  /\ pc = "auth"
  /\ UNCHANGED rateVars
  /\ wire_sends' \in SessionSends
  /\ sent' = sent \cup {"auth"}
  /\ \E outcome \in Outcomes : Step(outcome, "read")
  /\ UNCHANGED <<cookies, file_size, entry, textVars, argVars, dc_id, chunkVars,
                 publishVars>>

\* tiktok.py 505-511: the video file is read whole, or is not there
ReadVideo ==
  /\ pc = "read"
  /\ UNCHANGED rateVars
  /\ wire_sends' = 0 /\ UNCHANGED stepLog
  /\ \E exists \in BOOLEAN :
       IF exists THEN pc' = "apply" /\ slept' = 0 /\ UNCHANGED result ELSE Return("False")
  /\ UNCHANGED <<cookies, file_size, entry, textVars, argVars, dc_id, sent, chunkVars,
                 publishVars>>

\* the loop run only while a whole chunk is left, which drops a short tail
RECURSIVE Partition_WholeChunksOnly(_, _)
Partition_WholeChunksOnly(size, at) ==
  IF at + chunk_size <= size
  THEN <<[start |-> at, len |-> chunk_size]>>
       \o Partition_WholeChunksOnly(size, at + chunk_size)
  ELSE <<>>

\* tiktok.py 526-530: while i < file_size: chunks.append(content[i: i+chunk_size])
RECURSIVE Partition(_, _)
Partition(size, at) ==
  IF at < size
  THEN <<[start |-> at, len |-> Min(chunk_size, size - at)]>>
       \o Partition(size, at + chunk_size)
  ELSE <<>>

\* bot_utils.crc32(chunk): a digest of the chunk's bytes, which are the bytes
\* of the file at [start, start + len)
crc32(chunk) == (chunk.start + 31 * chunk.len + 7) % 65521

\* tiktok.py 512-532: session.get(ApplyUploadInner), then the partition
ApplyUpload ==
  /\ pc = "apply"
  /\ UNCHANGED rateVars
  /\ wire_sends' \in SessionSends
  /\ sent' = sent \cup {"apply"}
  /\ \E outcome \in Outcomes :
       /\ Step(outcome, "for")
       /\ IF outcome = "ok"
          THEN /\ chunks' = Partition(file_size, 0)
               /\ crcs' = <<>>
               /\ i' = 0
          ELSE UNCHANGED <<chunks, crcs, i>>
  /\ UNCHANGED <<cookies, file_size, entry, textVars, argVars, dc_id, retry_count,
                 chunk_uploaded, tries, transferred, acked, transferCrcs, manifest,
                 publishVars>>

\* tiktok.py 536-550 and 592-594: the head of `for i in range(len(chunks))`;
\* at `return video_id, ...` the frame of upload_to_tiktok is left and of its
\* locals the caller keeps crcs
NextChunk ==
  /\ pc = "for"
  /\ UNCHANGED rateVars
  /\ wire_sends' = 0 /\ UNCHANGED stepLog
  /\ IF i < Len(chunks)
     THEN /\ crcs' = Append(crcs, crc32(chunks[i + 1]))
          /\ retry_count' = 0
          /\ chunk_uploaded' = FALSE
          /\ tries' = 0
          /\ pc' = "while" /\ slept' = 0
     ELSE /\ pc' = "finalize" /\ slept' = 0
          /\ retry_count' = 0
          /\ chunk_uploaded' = FALSE
          /\ tries' = 0
          /\ UNCHANGED crcs
  /\ UNCHANGED <<cookies, file_size, entry, result, textVars, argVars, dc_id, sent,
                 chunks, i, transferred, acked, transferCrcs, manifest, publishVars>>


\* tiktok.py 538-546: `crc = crc32(chunk); crcs.append(crc)` at the head of
\* the for loop, and "Content-Crc32": crc in the headers built there, which
\* every pass of the while loop sends again
ContentCrc32(cs) == cs[Len(cs)]

\* what one session.post of a chunk can come to (tiktok.py 552-586)
TransferOutcomes == {"200", "non200", "ssl_error", "request_exception"}

\* any response at all taken for an acknowledgement
Acknowledged_AnyResponse(outcome) == outcome \in {"200", "non200"}

\* tiktok.py 554: if r.status_code == 200
Acknowledged(outcome) == outcome = "200"

\* the increment left out
NextRetryCount_Stuck(rc) == rc

\* tiktok.py 560, 568, 578: retry_count += 1
NextRetryCount(rc) == rc + 1

\* a wait that grows by 2 seconds with each retry
wait_time_Linear(rc) == Min(2 * rc, max_wait)

\* tiktok.py 561, 570, 580: wait_time = min(2 ** retry_count, 30)
wait_time(rc) == Min(2 ^ rc, max_wait)

\* tiktok.py 559: a non-200 response is retried if retry_count < max_retries - 1
Non200MayRetry(rc) == rc < max_retries - 1

\* tiktok.py 569, 579: an exception is retried if the incremented count < max_retries
ExceptionMayRetry(rc) == rc < max_retries

\* tiktok.py 551-590: one pass of `while retry_count < max_retries and not
\* uploaded`; the loop test and `if not uploaded: return False` follow it
TransferAttempt ==
  /\ pc = "while"
  /\ UNCHANGED rateVars
  /\ wire_sends' \in SessionSends /\ UNCHANGED stepLog
  /\ sent' = sent \cup {"transfer"}
  /\ transferred' = transferred \cup {i + 1}
  /\ transferCrcs' = transferCrcs \cup {<<i + 1, ContentCrc32(crcs)>>}
  /\ tries' = tries + 1
  /\ \E outcome \in TransferOutcomes :
       /\ acked' = IF outcome = "200" THEN acked \cup {i + 1} ELSE acked
       /\ IF outcome \in {"200", "non200"}
          THEN IF Acknowledged(outcome)
               THEN /\ chunk_uploaded' = TRUE
                    /\ i' = i + 1
                    /\ pc' = "for" /\ slept' = 0
                    /\ UNCHANGED <<retry_count, result>>
               ELSE IF Non200MayRetry(retry_count)
                    THEN /\ retry_count' = NextRetryCount(retry_count)
                         /\ IF retry_count' < max_retries
                            THEN pc' = "while" /\ slept' = wait_time(retry_count') /\ UNCHANGED result
                            ELSE Return("False")
                         /\ UNCHANGED <<chunk_uploaded, i>>
                    ELSE /\ Return("False")
                         /\ UNCHANGED <<retry_count, chunk_uploaded, i>>
          ELSE /\ retry_count' = NextRetryCount(retry_count)
               /\ IF ExceptionMayRetry(retry_count')
                  THEN IF retry_count' < max_retries
                       THEN pc' = "while" /\ slept' = wait_time(retry_count') /\ UNCHANGED result
                       ELSE Return("False")
                  ELSE Return("raise")
               /\ UNCHANGED <<chunk_uploaded, i>>
  /\ UNCHANGED <<cookies, file_size, entry, textVars, argVars, dc_id, chunks, crcs,
                 manifest, publishVars>>

(* --------------------- upload_video, after the transfer ---------------- *)

\* the entries numbered as the list is indexed, from 0
Manifest_ZeroBased(cs) == [n \in 1..Len(cs) |-> <<n - 1, cs[n]>>]

\* tiktok.py 146: ",".join([f"{i + 1}:{crcs[i]}" for i in range(len(crcs))]),
\* as the sequence of its entries <<part number, crc>> in the order joined
Manifest(cs) == [n \in 1..Len(cs) |-> <<n, cs[n]>>]

\* tiktok.py 141-155: requests.post(... phase=finish ...) with the manifest
Finalize ==
  /\ pc = "finalize"
  /\ UNCHANGED rateVars
  /\ wire_sends' \in PlainSends
  /\ sent' = sent \cup {"finish"}
  /\ manifest' = Manifest(crcs)
  /\ \E outcome \in Outcomes : Step(outcome, "commit")
  /\ UNCHANGED <<cookies, file_size, entry, textVars, argVars, dc_id, chunks, crcs,
                 i, retry_count, chunk_uploaded, tries, transferred, acked,
                 transferCrcs, publishVars>>

\* tiktok.py 161-166: session.post(CommitUploadInner)
CommitUpload ==
  /\ pc = "commit"
  /\ UNCHANGED rateVars
  /\ wire_sends' \in SessionSends
  /\ sent' = sent \cup {"commit"}
  /\ \E outcome \in Outcomes : Step(outcome, "head")
  /\ UNCHANGED <<cookies, file_size, entry, textVars, argVars, dc_id, chunkVars,
                 publishVars>>

\* tiktok.py 169-176: session.head("https://www.tiktok.com"); the responses
\* received so far have or have not left an msToken cookie in the jar
HeadHome ==
  /\ pc = "head"
  /\ UNCHANGED rateVars
  /\ wire_sends' \in SessionSends
  /\ sent' = sent \cup {"head"}
  /\ \E outcome \in Outcomes :
       /\ Step(outcome, "build")
       /\ IF outcome = "ok" THEN msToken' \in BOOLEAN ELSE UNCHANGED msToken
  /\ UNCHANGED <<cookies, file_size, entry, textVars, argVars, dc_id, chunkVars,
                 attempt, uploaded, actually_scheduled, data, repairs, oracleCalls,
                 signatures, postLog, disposition,
                 original_schedule_time, refreshed, sig_url>>

\* the shortest offset of the window left out
ScheduleAttached_AboveMinimum(st) ==
  st # 0 /\ st > 0 /\ st > min_schedule /\ st <= max_schedule

\* tiktok.py 265-267: the schedule field is attached for an offset in the window
ScheduleAttached(st) ==
  st # 0 /\ st > 0 /\ st >= min_schedule /\ st <= max_schedule

\* allow_comment, allow_duet, allow_stitch: generate_music_video passes
\* 1, 1, 1 (music_video_bot.py 197-201, 221-223), the defaults of upload_video
\* are 1, 0, 0 (tiktok.py 54)
Engagement(e) == IF e = "bot" THEN <<1, 1, 1>> ELSE <<1, 0, 0>>

\* tiktok.py 216-288: the payload, the schedule field and the loop's locals
BuildPayload ==
  /\ pc = "build"
  /\ UNCHANGED rateVars
  /\ wire_sends' = 0 /\ UNCHANGED stepLog
  /\ data' = [text |-> FullText(title, description, keywords),
              schedule_time |-> IF ScheduleAttached(schedule_time)
                                THEN <<schedule_time + Clock>> ELSE <<>>,
              rest |-> <<"creation_id", "video_id", visibility_type,
                         Engagement(entry)>>]
  /\ original_schedule_time' = schedule_time
  /\ actually_scheduled' = ScheduleAttached(schedule_time)
  /\ schedule_time' = IF schedule_time # 0 /\ schedule_time > 0
                         /\ ~ScheduleAttached(schedule_time)
                      THEN 0 ELSE schedule_time
  /\ uploaded' = FALSE
  /\ attempt' = 0
  /\ pc' = "loop" /\ slept' = 0
  /\ UNCHANGED <<cookies, file_size, entry, result, textVars, visibility_type, dc_id,
                 sent, chunkVars, msToken, repairs, oracleCalls, signatures, postLog,
                 disposition, refreshed, sig_url>>


(* ------------------------------ publish loop --------------------------- *)

\* `if attempt < max_attempts: time.sleep(2); continue` followed by
\* `return False` (tiktok.py 300-304, 315-319, 325-329, 347-353, 420-425,
\* 429-434, 438-443)
RetryOrFail(att) ==
  IF att < max_attempts THEN pc' = "loop" /\ slept' = retry_pause /\ UNCHANGED result ELSE Return("False")

\* what the refresh of tiktok.py 296-297 can come to, when the jar has no msToken
RefreshOutcomes == {"token", "no_token", "exception"}

\* the refresh skipped whatever the jar holds
NeedsRefresh_Never(tok) == FALSE

\* tiktok.py 292-293: mstoken = session.cookies.get("msToken"); if not mstoken
NeedsRefresh(tok) == ~tok

\* tiktok.py 290-304 and 455-457: the loop test, attempt += 1 and the msToken
GetToken ==
  /\ pc = "loop"
  /\ UNCHANGED rateVars
  /\ wire_sends' \in IF attempt < max_attempts /\ NeedsRefresh(msToken)
                     THEN SessionSends ELSE {0}
  /\ UNCHANGED stepLog
  /\ IF attempt < max_attempts
     THEN /\ attempt' = attempt + 1
          /\ IF ~NeedsRefresh(msToken)
             THEN /\ pc' = "sign" /\ slept' = 0
                  /\ refreshed' = 0
                  /\ UNCHANGED <<result, msToken, sent>>
             ELSE /\ sent' = sent \cup {"refresh"}
                  /\ refreshed' = 1
                  /\ \E outcome \in RefreshOutcomes :
                       IF outcome = "token"
                       THEN msToken' = TRUE /\ pc' = "sign" /\ slept' = 0 /\ UNCHANGED result
                       ELSE IF outcome = "no_token"
                       THEN RetryOrFail(attempt') /\ UNCHANGED msToken
                       ELSE Return("raise") /\ UNCHANGED msToken
     ELSE /\ Return(IF ~uploaded THEN "False" ELSE "None")
          /\ UNCHANGED <<attempt, msToken, sent, refreshed>>
  /\ UNCHANGED <<cookies, file_size, entry, textVars, argVars, dc_id, chunkVars,
                 uploaded, actually_scheduled, data, repairs, oracleCalls, signatures,
                 postLog, disposition,
                 original_schedule_time, sig_url>>

\* what subprocess_jsvmp can hand back: nothing, text that is not JSON, JSON
\* without "data", data without "x-bogus"/"signature", or both signatures
SignatureOutcomes == {"none", "not_json", "no_data", "no_keys", "ok"}

\* the signatures computed over the URL the POST goes to
SignaturePath_SameAsPublish == "/tiktok/web/project/post/v1/"

\* tiktok.py 311: the path of sig_url
SignaturePath == "/api/v1/web/project/post/"

\* tiktok.py 343: the path of the publish POST
PublishPath == "/tiktok/web/project/post/v1/"

\* tiktok.py 309-340: the signature oracle and the query parameters; a missing
\* "x-bogus" or "signature" is a KeyError outside any try
Sign ==
  /\ pc = "sign"
  /\ UNCHANGED rateVars
  /\ wire_sends' = 0 /\ UNCHANGED stepLog
  /\ oracleCalls' = oracleCalls + 1
  /\ sig_url' = [attempt |-> attempt, path |-> SignaturePath, msToken |-> msToken]
  /\ \E outcome \in SignatureOutcomes :
       /\ signatures' = outcome
       /\ IF outcome \in {"none", "not_json", "no_data"}
          THEN RetryOrFail(attempt)
          ELSE IF outcome = "no_keys"
          THEN Return("raise")
          ELSE pc' = "post" /\ slept' = 0 /\ UNCHANGED result
  /\ UNCHANGED <<cookies, file_size, entry, textVars, argVars, dc_id, sent, chunkVars,
                 msToken, attempt, uploaded, actually_scheduled, data, repairs,
                 postLog, disposition,
                 original_schedule_time, refreshed>>

\* the description cut first and the keywords after it
RepairText_DescriptionFirst(t, d, k) ==
  LET excess == FullText(t, d, k) - max_text_length
  IN IF d > excess
     THEN [description |-> Slice(d, d - excess - repair_buffer), keywords |-> k]
     ELSE IF k > excess
          THEN [description |-> 0,
                keywords |-> Slice(k, k - excess - repair_buffer)]
          ELSE [description |-> 0, keywords |-> k]

\* tiktok.py 375-386: the text repair of a status_code 5, as the new lengths of
\* description and keywords
RepairText(t, d, k) ==
  LET excess == FullText(t, d, k) - max_text_length
  IN IF k > excess
     THEN [description |-> d, keywords |-> Slice(k, k - excess - repair_buffer)]
     ELSE LET k1 == 0
              excess1 == excess - k1
          IN IF d > excess1
             THEN [description |-> Slice(d, d - excess1 - repair_buffer),
                   keywords |-> k1]
             ELSE [description |-> d, keywords |-> k1]

\* the text taken for over-long when it only just fills the budget
TextTooLong_AtLimit(t, d, k) == FullText(t, d, k) >= max_text_length

\* tiktok.py 376: if len(full_text) > 2200
TextTooLong(t, d, k) == FullText(t, d, k) > max_text_length

\* the schedule removed on a status_code 5 of any attempt
StripsSchedule_AnyAttempt(att, sched, d) == sched /\ Len(d.schedule_time) = 1

\* the schedule stripped on every attempt but the first
StripsSchedule_NotFirst(att, sched, d) ==
  sched /\ Len(d.schedule_time) = 1 /\ att # 1

\* tiktok.py 401-402: the schedule is stripped on the first attempt only
StripsSchedule(att, sched, d) ==
  sched /\ Len(d.schedule_time) = 1 /\ att = 1

\* tiktok.py 362: the success line says "Scheduled for" or "Posted immediately"
Disposition(sched, d) ==
  IF sched /\ Len(d.schedule_time) = 1 THEN "scheduled" ELSE "immediate"

\* what session.request("POST", publish url) can come to (tiktok.py 344-443)
PublishOutcomes ==
  {"exception", "rejected", "bad_json", "status_0", "status_5", "status_other"}

\* tiktok.py 370-425: a status_code 5 on attempt att
\* the payload built anew around the repaired text, with the defaults of
\* upload_video for the engagement flags
Repaired_Rebuilt(d, text, strip) ==
  [text |-> text,
   schedule_time |-> IF strip THEN <<>> ELSE d.schedule_time,
   rest |-> <<d.rest[1], d.rest[2], d.rest[3], <<1, 0, 0>>>>]

\* tiktok.py 388-390 and 410: the two writes of the status_code 5 branch to
\* the payload: text / markup_text, and the pop of schedule_time
Repaired(d, text, strip) ==
  [d EXCEPT !.text = text,
            !.schedule_time = IF strip THEN <<>> ELSE @]

OnStatus5(att) ==
  LET long == TextTooLong(title, description, keywords)
      cut == RepairText(title, description, keywords)
      strip == StripsSchedule(att, actually_scheduled, data)
  IN /\ IF long
        THEN /\ description' = cut.description
             /\ keywords' = cut.keywords
             /\ repairs' = repairs + 1
        ELSE UNCHANGED <<description, keywords, repairs>>
     /\ IF long /\ att < max_attempts
        THEN /\ data' = Repaired(data, FullText(title, description', keywords'), FALSE)
             /\ pc' = "loop" /\ slept' = retry_pause
             /\ UNCHANGED <<result, actually_scheduled>>
        ELSE /\ data' = Repaired(data,
                                 IF long
                                 THEN FullText(title, description', keywords')
                                 ELSE data.text,
                                 strip)
             /\ actually_scheduled' = IF strip THEN FALSE ELSE actually_scheduled
             /\ RetryOrFail(att)

\* every status_code but 5 taken for success
Succeeded_NotFive(outcome) == outcome \in {"status_0", "status_other"}

\* tiktok.py 360: if status_code == 0
Succeeded(outcome) == outcome = "status_0"

\* tiktok.py 343-443: the publish POST and what follows its response; postLog
\* records each POST with the payload it carried and what came back
Publish ==
  /\ pc = "post"
  /\ UNCHANGED rateVars
  /\ wire_sends' \in SessionSends /\ UNCHANGED stepLog
  /\ sent' = sent \cup {"publish"}
  /\ \E outcome \in PublishOutcomes :
       /\ postLog' = Append(postLog, [attempt |-> attempt, text |-> data.text,
                                      schedule_time |-> data.schedule_time,
                                      rest |-> data.rest,
                                      jar |-> <<"sessionid", dc_id>>,
                                      path |-> PublishPath,
                                      msToken |-> msToken,
                                      signed |-> sig_url,
                                      outcome |-> outcome])
       /\ IF outcome = "exception"
          THEN /\ Return("raise")
               /\ UNCHANGED <<description, keywords, repairs, data,
                              actually_scheduled, uploaded, disposition>>
          ELSE IF outcome \in {"rejected", "bad_json"}
          THEN /\ RetryOrFail(attempt)
               /\ UNCHANGED <<description, keywords, repairs, data,
                              actually_scheduled, uploaded, disposition>>
          ELSE IF Succeeded(outcome)
          THEN /\ disposition' = Disposition(actually_scheduled, data)
               /\ uploaded' = TRUE
               /\ Return("True")
               /\ UNCHANGED <<description, keywords, repairs, data,
                              actually_scheduled>>
          ELSE IF outcome = "status_5"
          THEN /\ OnStatus5(attempt)
               /\ UNCHANGED <<uploaded, disposition>>
          ELSE /\ RetryOrFail(attempt)
               /\ UNCHANGED <<description, keywords, repairs, data,
                              actually_scheduled, uploaded, disposition>>
  /\ UNCHANGED <<cookies, file_size, entry, title, argVars, dc_id, chunkVars, msToken,
                 attempt, oracleCalls, signatures, original_schedule_time, refreshed, sig_url>>

Next ==
  \/ GenerateMetadata
  \/ GenerateMusicVideo
  \/ CallUploadVideo
  \/ LoadSession
  \/ Validate
  \/ CreateProject
  \/ UploadAuth
  \/ ReadVideo
  \/ ApplyUpload
  \/ NextChunk
  \/ TransferAttempt
  \/ Finalize
  \/ CommitUpload
  \/ HeadHome
  \/ BuildPayload
  \/ GetToken
  \/ Sign
  \/ Publish

Spec == Init /\ [][Next]_vars


(* -------------------------------- claims ------------------------------- *)

Last(log) == log[Len(log)]
HasSchedule(d) == Len(d.schedule_time) = 1
\* the current chunk has been requested and not acknowledged
Failing == (i + 1) \in transferred /\ (i + 1) \notin acked
\* the current chunk has failed max_retries times
ChunkExhausted == Failing /\ tries = max_retries

\* C1: a job whose session file has no sessionid cookie never issues an HTTP
\* request of any kind and never invokes the signature oracle; it ends in
\* LoadSession, by sys.exit.
C1_NoSessionNoRequest ==
  "sessionid" \notin cookies =>
    /\ sent = {}
    /\ transferred = {}
    /\ oracleCalls = 0
    /\ postLog = <<>>
    /\ pc \in {"idle", "truncate", "load_session", "done"}
    /\ pc = "done" => result = "exit"

C1_Witness == "sessionid" \notin cookies /\ pc = "done" /\ result = "exit"

\* C2: a transfer request for part n has been issued only if every part
\* before n was acknowledged with 200, and the finish request only if all N
\* parts were.
C2_ChunksInOrder ==
  /\ \A n \in transferred : \A m \in 1..(n - 1) : m \in acked
  /\ transferred \subseteq 1..Len(chunks)
  /\ "finish" \in sent => acked = 1..Len(chunks)

C2_Witness ==
  /\ "finish" \in sent
  /\ Len(chunks) >= 2
  /\ acked = 1..Len(chunks)

\* C3: no chunk is requested more than max_retries (5) times, whatever the
\* mix of exceptions and non-200 responses; once the current chunk has failed
\* 5 times the job is over, with no later part requested and no finish,
\* commit, page or publish request and no oracle invocation made.
C3_ChunkRetriesBounded ==
  /\ tries <= max_retries
  /\ ChunkExhausted =>
       /\ pc = "done"
       /\ result \in {"False", "raise"}
       /\ \A n \in transferred : n <= i + 1
       /\ sent \cap {"finish", "commit", "head", "refresh", "publish"} = {}
       /\ oracleCalls = 0
       /\ postLog = <<>>

C3_Witness ==
  /\ ChunkExhausted
  /\ i = 1
  /\ retry_count = max_retries
  /\ result = "raise"

\* C4: a job that fails by a chunk exhausting its 5 attempts, by signature
\* output without the x-bogus/signature keys, or by a transport failure of
\* the publish request ends with the result False.
C4_FailureReturnsFalse ==
  /\ (pc = "done" /\ ChunkExhausted) => result = "False"
  /\ (pc = "done" /\ signatures = "no_keys" /\ result # "True") => result = "False"
  /\ (pc = "done" /\ postLog # <<>> /\ Last(postLog).outcome = "exception")
       => result = "False"

\* C5: at most max_attempts (3) attempts, oracle invocations and publish POSTs
\* are made, and a job that ends in its third attempt ends with the result
\* True or False.
C5_ThreeAttemptsDefiniteResult ==
  /\ attempt <= max_attempts
  /\ oracleCalls <= max_attempts
  /\ Len(postLog) <= max_attempts
  /\ (pc = "done" /\ attempt = max_attempts) => result \in {"True", "False"}

\* C6: the result is True exactly when a publish response carried
\* status_code 0; that response is the last one of the job; and the success
\* is reported as scheduled exactly when the payload of that POST carried
\* schedule_time, as immediate otherwise.
C6_TrueIffStatusZero ==
  /\ result = "True" <=> (postLog # <<>> /\ Last(postLog).outcome = "status_0")
  /\ \A n \in 1..Len(postLog) : postLog[n].outcome = "status_0" => n = Len(postLog)
  /\ result = "True" =>
       /\ pc = "done"
       /\ disposition = IF HasSchedule(Last(postLog)) THEN "scheduled" ELSE "immediate"
  /\ result # "True" => disposition = "none"

C6_Witness ==
  /\ result = "True"
  /\ schedule_time = 0
  /\ Len(postLog) = 1
  /\ postLog[1].attempt = 1
  /\ disposition = "immediate"

\* the first POST was made in attempt 1 with a schedule field and a text
\* within the budget, and was answered with status_code 5
ScheduleRejected ==
  /\ postLog # <<>>
  /\ postLog[1].attempt = 1
  /\ HasSchedule(postLog[1])
  /\ postLog[1].text <= max_text_length
  /\ postLog[1].outcome = "status_5"

\* C7: after a scheduled first attempt answered with status_code 5 the payload
\* has no schedule field and the job is flagged not scheduled, no later POST
\* carries the field, and a status_code 0 on attempt 2 ends the job True with
\* the immediate disposition.
C7_ScheduleStrippedAfterFive ==
  ScheduleRejected =>
    /\ ~HasSchedule(data)
    /\ ~actually_scheduled
    /\ \A n \in 2..Len(postLog) : ~HasSchedule(postLog[n])
    /\ (Len(postLog) >= 2 /\ postLog[2].attempt = 2 /\ postLog[2].outcome = "status_0")
         => (result = "True" /\ disposition = "immediate")

C7_Witness ==
  /\ ScheduleRejected
  /\ Len(postLog) = 2
  /\ postLog[2].attempt = 2
  /\ postLog[2].outcome = "status_0"
  /\ result = "True"
  /\ disposition = "immediate"

\* C8: no publish POST carries a combined text longer than max_text_length.
C8_NoOverlongPost ==
  \A n \in 1..Len(postLog) : postLog[n].text <= max_text_length

\* C9: once the status_code 5 repair has truncated the text, the text in the
\* payload is within max_text_length.
C9_RepairedTextFits ==
  repairs > 0 => data.text <= max_text_length

\* C10: the text generate_music_video hands to upload_video is within
\* max_text_length.
C10_TruncatedTextFits ==
  (entry = "bot" /\ pc = "load_session") =>
    FullText(title, description, keywords) <= max_text_length

Partitioned == pc \in {"for", "while", "finalize"}

RECURSIVE SumOfLengths(_)
SumOfLengths(cs) == IF cs = <<>> THEN 0 ELSE cs[1].len + SumOfLengths(Tail(cs))

\* C12: a file of S bytes is cut into exactly ceil(S / 5 MiB) chunks (none for
\* an empty file); every chunk but the last is 5 MiB long, the last is between
\* 1 byte and 5 MiB long, the lengths add up to S, and the chunks are
\* consecutive byte ranges starting at 0 that neither overlap nor leave a gap
C12_PartitionCoversFile ==
  Partitioned =>
    LET N == Len(chunks)
    IN /\ N = (file_size + chunk_size - 1) \div chunk_size
       /\ \A n \in 1..N :
            /\ n < N => chunks[n].len = chunk_size
            /\ chunks[n].len >= 1 /\ chunks[n].len <= chunk_size
            /\ chunks[n].start = IF n = 1 THEN 0
                                 ELSE chunks[n - 1].start + chunks[n - 1].len
       /\ SumOfLengths(chunks) = file_size

\* a file one byte longer than a chunk has been cut into a full chunk and a
\* chunk of one byte
C12_Witness ==
  /\ Partitioned /\ file_size = chunk_size + 1
  /\ Len(chunks) = 2 /\ chunks[2].len = 1

\* C13: the body of the finish request has exactly one entry for each part
\* 1..N, in ascending order without gap or duplicate, and entry n carries the
\* CRC32 of chunk n; that digest is computed once per chunk, so every transfer
\* request of part n, first try or retry, carries the same value in
\* Content-Crc32
C13_ManifestMatchesTransfers ==
  /\ \A tc \in transferCrcs :
       /\ tc[1] \in 1..Len(chunks)
       /\ tc[2] = crc32(chunks[tc[1]])
  /\ Len(crcs) <= Len(chunks)
  /\ "finish" \in sent =>
       /\ Len(manifest) = Len(chunks)
       /\ \A n \in 1..Len(manifest) :
            /\ manifest[n] = <<n, crc32(chunks[n])>>
            /\ \A tc \in transferCrcs : tc[1] = n => tc[2] = manifest[n][2]
            /\ \E tc \in transferCrcs : tc[1] = n

\* the finish request of a file of two chunks has been sent
C13_Witness ==
  /\ "finish" \in sent /\ Len(chunks) = 2 /\ Len(manifest) = 2
  /\ manifest[1][2] # manifest[2][2]

\* C14: on a text whose combined length is at most 2200 either truncation
\* procedure changes nothing: the pre-upload truncation hands on the title,
\* description and keywords as generated, and a publish attempt, whatever its
\* status_code, leaves the three fields and the text of the payload as they
\* were
C14_NoOpWithinBudget ==
  [][/\ (pc = "truncate" /\ FullText(title, description, keywords) <= max_text_length)
        => (title' = title /\ description' = description /\ keywords' = keywords)
     /\ (pc = "post" /\ FullText(title, description, keywords) <= max_text_length)
        => (title' = title /\ description' = description /\ keywords' = keywords
            /\ data'.text = data.text /\ repairs' = repairs)]_vars

\* a generated text that fills the budget exactly has been through the
\* pre-upload truncation and through a status_code 5 and is as it was
C14_Witness ==
  /\ entry = "bot" /\ postLog # <<>> /\ Last(postLog).outcome = "status_5"
  /\ Last(postLog).text = max_text_length /\ keywords = SmallLen
  /\ data.text = max_text_length /\ repairs = 0
  /\ FullText(title, description, keywords) = data.text

\* the job ended on a definite failure: no session, or a parameter turned away
DefiniteFailure == pc = "done" /\ sent = {} /\ result # "True"

\* the job ended on a transient failure: a chunk out of transfer tries, or the
\* publish loop out of attempts (signature failures, token failures, remote
\* rejections)
TransientFailure ==
  pc = "done" /\ result # "True" /\ (ChunkExhausted \/ attempt = max_attempts)

\* C15: what the caller of upload_video gets back tells a definite failure
\* from a transient one: a job that ends on a transient failure does not hand
\* back what the parameter check hands back for a bad offset or an over-long
\* title, nor what a missing sessionid produces
C15_FailuresDistinguishable ==
  /\ DefiniteFailure => result \in {ValidationResult, "exit"}
  /\ TransientFailure => result \notin {ValidationResult, "exit"}

\* C16: a status_code 5 answer to attempt 1 gets both repairs: when attempt 1
\* carried an over-long text and a schedule, the next publish request carries
\* the text as truncated and no schedule_time
C16_BothRepairsOnFirstFive ==
  \A n \in 1..(Len(postLog) - 1) :
    (postLog[n].attempt = 1 /\ postLog[n].outcome = "status_5"
       /\ HasSchedule(postLog[n]) /\ postLog[n].text > max_text_length)
    => /\ postLog[n + 1].text <= postLog[n].text
       /\ ~HasSchedule(postLog[n + 1])

\* the characters by which the text of the current fields exceeds the budget
Excess == FullText(title, description, keywords) - max_text_length

\* C17: both truncation procedures go keywords, description, title: the
\* description is shortened only when the keywords alone cannot absorb the
\* excess, and the keywords are then empty; the title is shortened only when
\* keywords and description together cannot absorb it, and both are then
\* empty; no earlier field is left non-empty while a later one is shortened
C17_TruncationOrder ==
  [][(pc \in {"truncate", "post"}) =>
       /\ description' < description
            => (keywords' = 0 /\ keywords < Excess)
       /\ title' < title
            => (keywords' = 0 /\ description' = 0
                /\ keywords + description < Excess)]_vars

\* C17 (amended): both truncation procedures go keywords, description, title.
\* Before the upload the description is shortened only when the keywords are
\* not longer than the excess plus the buffer of 50, and the keywords are then
\* empty; the title is shortened only when neither keywords nor description
\* is longer than the excess plus 50, and both are then empty.  In the
\* status_code 5 repair the description is shortened only when the keywords
\* are not longer than the excess, the keywords are then empty, and the title
\* is never shortened.  No earlier field is left non-empty while a later one
\* is shortened.
C17_TruncationOrderWithBuffers ==
  [][/\ pc = "truncate" =>
          /\ description' < description
               => (keywords' = 0 /\ keywords <= Excess + text_buffer)
          /\ title' < title
               => (keywords' = 0 /\ description' = 0
                   /\ keywords <= Excess + text_buffer
                   /\ description <= Excess + text_buffer)
     /\ pc = "post" =>
          /\ description' < description
               => (keywords' = 0 /\ keywords <= Excess)
          /\ title' = title]_vars

\* a status_code 5 repair has emptied short keywords and then shortened an
\* over-long description
C17_Witness ==
  /\ repairs = 1 /\ title = 0 /\ keywords = 0
  /\ postLog[1].text = FullText(0, max_text_length + 1, SmallLen)
  /\ description > 0 /\ description < max_text_length + 1

\* the offset the job was called with lies in the window
InWindow ==
  original_schedule_time >= min_schedule /\ original_schedule_time <= max_schedule

\* attempt 1 is about to be made or is being made with the payload as built
FirstAttempt ==
  (pc = "loop" /\ attempt = 0) \/ (pc \in {"sign", "post"} /\ attempt = 1)

\* C18: the payload of the first publish attempt carries schedule_time
\* exactly when the requested offset lies in [900, 864000]; the value is then
\* the integer clock reading plus the offset and the job is marked as
\* scheduled; otherwise the payload has no schedule field and the job is
\* marked as not scheduled
C18_FirstAttemptSchedule ==
  /\ FirstAttempt =>
       /\ HasSchedule(data) <=> InWindow
       /\ actually_scheduled <=> InWindow
       /\ InWindow => data.schedule_time[1] = Clock + original_schedule_time
  /\ (postLog # <<>> /\ postLog[1].attempt = 1) =>
       /\ HasSchedule(postLog[1]) <=> InWindow
       /\ InWindow => postLog[1].schedule_time[1] = Clock + original_schedule_time

\* a job with the shortest offset of the window has sent its first publish
\* request with the schedule field
C18_Witness ==
  /\ postLog # <<>> /\ postLog[1].attempt = 1
  /\ original_schedule_time = min_schedule
  /\ postLog[1].schedule_time = <<Clock + min_schedule>>

\* C19: a publish attempt that ends with a status_code other than 0 and 5,
\* with an unsuccessful HTTP response, with a transport failure of the POST or
\* with a body that cannot be parsed is followed by the next attempt when
\* attempts remain and by the return of False when it was attempt 3; none of
\* them ends the job earlier
C19_FailedAttemptRetried ==
  [][(pc = "post"
        /\ Last(postLog').outcome
             \in {"status_other", "rejected", "exception", "bad_json"})
     => IF attempt < max_attempts
        THEN pc' = "loop"
        ELSE pc' = "done" /\ result' = "False"]_vars

\* C20: every failure of the signature helper (no output, output that is
\* not JSON, no `data` key, `data` without x-bogus or signature) is handled
\* alike: no publish POST is sent in that attempt, the next attempt is made
\* when attempts remain, and the job returns False after attempt 3
C20_SignatureFailuresAlike ==
  [][(pc = "sign" /\ signatures' \in {"none", "not_json", "no_data", "no_keys"})
     => /\ postLog' = postLog
        /\ IF attempt < max_attempts
           THEN pc' = "loop"
           ELSE pc' = "done" /\ result' = "False"]_vars

\* C21: a publish attempt that finds no msToken in the jar sends one refresh
\* request; if the token is still absent the attempt fails without a call of
\* the signature helper and without a publish POST, the next attempt follows
\* a pause of 2 seconds when attempts remain, and the job returns False when
\* this was attempt 3; the signature helper is only ever reached with a token
C21_NoTokenNoSignature ==
  [][(pc = "loop" /\ attempt < max_attempts) =>
       /\ refreshed' = IF msToken THEN 0 ELSE 1
       /\ pc' = "sign" => msToken'
       /\ (~msToken' /\ result' # "raise") =>
            /\ oracleCalls' = oracleCalls /\ postLog' = postLog
            /\ IF attempt' < max_attempts
               THEN pc' = "loop" /\ slept' = retry_pause
               ELSE pc' = "done" /\ result' = "False" /\ slept' = 0]_vars

\* three attempts have each sent a refresh and found no token: the job has
\* returned False without a signature or a publish POST
C21_Witness ==
  /\ pc = "done" /\ result = "False" /\ attempt = max_attempts
  /\ refreshed = 1 /\ ~msToken /\ "refresh" \in sent
  /\ oracleCalls = 0 /\ postLog = <<>>

\* the fatal steps in the order of the code
StageOrder == <<"project", "auth", "apply", "finalize", "commit", "head">>

\* how many of them must have succeeded before a request of this kind
Before(kind) ==
  CASE kind = "project" -> 0
    [] kind = "auth" -> 1
    [] kind = "apply" -> 2
    [] kind \in {"transfer", "finish"} -> 3
    [] kind = "commit" -> 4
    [] kind = "head" -> 5
    [] kind \in {"refresh", "publish"} -> 6

\* C22: the requests of a job follow the order project-create, upload
\* authorization, apply-upload, chunk transfers, finalize, metadata commit,
\* publish: a request of a step is issued only after every earlier step
\* succeeded (and the finish request only after every chunk was acknowledged),
\* and a step before the publish loop that does not succeed ends the job
\* unsuccessfully with no request of a later step, no call of the signature
\* helper and no publish attempt
C22_StateOrder ==
  /\ Len(stepLog) <= Len(StageOrder)
  /\ \A n \in 1..Len(stepLog) :
       /\ stepLog[n].step = StageOrder[n]
       /\ n < Len(stepLog) => stepLog[n].outcome = "ok"
  /\ \A kind \in sent :
       /\ Before(kind) < Len(stepLog) \/ kind \in {"transfer", "refresh", "publish"}
       /\ \A n \in 1..Before(kind) :
            n <= Len(stepLog) /\ stepLog[n].outcome = "ok"
  /\ "finish" \in sent => acked = 1..Len(chunks)
  /\ (stepLog # <<>> /\ Last(stepLog).outcome # "ok") =>
       /\ pc = "done" /\ result # "True"
       /\ Last(stepLog).outcome = "rejected" => result = "False"
       /\ \A kind \in sent : Before(kind) < Len(stepLog)
       /\ postLog = <<>> /\ oracleCalls = 0
  /\ (pc = "done" /\ Failing) =>
       /\ result # "True" /\ postLog = <<>> /\ oracleCalls = 0
       /\ sent \subseteq {"project", "auth", "apply", "transfer"}

\* the metadata commit has been rejected after a finalize that succeeded: the
\* job has returned False without a request to the home page or a publish
C22_Witness ==
  /\ Len(stepLog) = 5 /\ Last(stepLog).step = "commit"
  /\ Last(stepLog).outcome = "rejected"
  /\ pc = "done" /\ result = "False"
  /\ sent = {"project", "auth", "apply", "transfer", "finish", "commit"}

\* C23: the finish request and the metadata commit are each put on the wire
\* at most once per job, by the code and by the adapter mounted on the
\* session alike, and a failure of either ends the job
C23_FinalizeCommitOnce ==
  (stepLog # <<>> /\ Last(stepLog).step \in {"finalize", "commit"}) =>
    /\ wire_sends <= 1
    /\ Last(stepLog).outcome # "ok" => pc = "done" /\ result # "True"

\* upload_video has got past the loading of the session
SessionLoaded == pc \notin {"idle", "truncate", "load_session"}

\* C24: a session with a sessionid and no tt-target-idc cookie does not abort
\* the job: the default datacenter id is used as the session's tt-target-idc
\* and the job goes on to the parameter check and the project creation as it
\* does with a stored id (it ends before the project request only when the
\* parameter check turns it away)
C24_DatacenterFallback ==
  (~SessionMissing(cookies) /\ SessionLoaded) =>
    /\ dc_id = IF "tt-target-idc" \in cookies THEN "stored" ELSE "useast2a"
    /\ result # "exit"
    /\ (pc = "done" /\ sent = {}) => (~ValidationPasses /\ result = "False")
    /\ (ValidationPasses /\ pc \notin {"validate", "project"}) => "project" \in sent

\* a job without the tt-target-idc cookie has sent the project request with
\* the default datacenter id
C24_Witness ==
  /\ "sessionid" \in cookies /\ "tt-target-idc" \notin cookies
  /\ dc_id = "useast2a" /\ "project" \in sent

\* upload_video has been called (the caller's own truncation is over)
Called == pc \notin {"idle", "truncate"}

\* C25: a call of upload_video with a title of more than 2200 characters, or
\* with a non-zero offset and private visibility, is turned away before any
\* network request: it returns False (it exits if the session has no
\* sessionid, which is looked at first) with no HTTP request and no call of
\* the signature helper; a title of exactly 2200 characters is not turned
\* away by the title check
C25_RejectedBeforeNetwork ==
  /\ (Called /\ (title > max_text_length
                  \/ (schedule_time # 0 /\ visibility_type = 1))) =>
       /\ sent = {} /\ oracleCalls = 0 /\ stepLog = <<>> /\ postLog = <<>>
       /\ pc \in {"load_session", "validate", "done"}
       /\ pc = "done" =>
            result = IF SessionMissing(cookies) THEN "exit" ELSE "False"
  /\ (Called /\ title = max_text_length /\ ~SessionMissing(cookies)
        /\ ~ScheduleOutOfWindow(schedule_time)
        /\ ~(schedule_time # 0 /\ visibility_type = 1)) =>
       /\ pc = "done" => sent # {}
       /\ pc \notin {"load_session", "validate"} => "project" \in sent \/ pc = "project"

\* an over-long title has been turned away with False and no request, and so
\* has a scheduled private post
C25_Witness ==
  /\ pc = "done" /\ result = "False" /\ sent = {} /\ oracleCalls = 0
  /\ ~SessionMissing(cookies)
  /\ title = max_text_length + 1
  /\ schedule_time = min_schedule /\ visibility_type = 1

\* the waits of the four retries of a chunk, in order
Backoff == <<2, 4, 8, 16>>

\* C26: the k-th retry of a chunk (k = 1..4) comes after a wait of
\* min(2^k, 30) seconds, that is 2, 4, 8, 16, whether the try before it ended
\* in a transport error or in a non-200 response; no wait exceeds 30 seconds,
\* the first try of a chunk comes after no wait, and no wait follows the
\* fifth failed try
C26_ChunkBackoff ==
  /\ pc = "while" =>
       /\ retry_count \in 0..(max_retries - 1)
       /\ tries = retry_count
       /\ slept = IF retry_count = 0 THEN 0 ELSE Backoff[retry_count]
       /\ slept <= max_wait
  /\ (pc = "done" /\ Failing) => slept = 0

\* the fourth retry of a chunk is about to be made after a wait of 16 seconds
C26_Witness ==
  /\ pc = "while" /\ retry_count = max_retries - 1 /\ tries = max_retries - 1
  /\ slept = 16

C28_FreshSignatures ==
  /\ pc = "post" =>
       /\ signatures = "ok" /\ msToken
       /\ sig_url.attempt = attempt /\ sig_url.msToken
  /\ \A n \in 1..Len(postLog) :
       /\ postLog[n].signed.attempt = postLog[n].attempt
       /\ postLog[n].signed.msToken /\ postLog[n].msToken
       /\ postLog[n].signed.path = "/api/v1/web/project/post/"
       /\ postLog[n].path = "/tiktok/web/project/post/v1/"
       /\ postLog[n].path # postLog[n].signed.path
  /\ oracleCalls >= Len(postLog)

\* the third attempt has sent its POST with signatures of its own, after two
\* attempts that had theirs
C28_Witness ==
  /\ Len(postLog) = max_attempts /\ oracleCalls = max_attempts
  /\ postLog[3].signed.attempt = 3 /\ postLog[1].signed.attempt = 1

\* C29: at the start of every publish attempt actually_scheduled is true
\* exactly when the payload has a schedule_time field; the field is removed
\* only in answer to a status_code 5 on attempt 1 (a status_code 5 on attempt
\* 2 or 3 leaves an attached schedule in place), and once it is gone it is
\* never attached again, so it is removed at most once per job
C29_ScheduleFlagAndField ==
  [][/\ pc' \in {"loop", "sign", "post"}
          => (actually_scheduled' <=> HasSchedule(data'))
     /\ (HasSchedule(data) /\ ~HasSchedule(data'))
          => (pc = "post" /\ attempt = 1
              /\ Last(postLog').outcome = "status_5")
     /\ (pc \in {"loop", "sign", "post"} /\ ~HasSchedule(data))
          => ~HasSchedule(data')]_vars

\* a status_code 5 on attempt 2 has left the schedule attached, and the third
\* attempt is about to start with the flag still set
C29_Witness ==
  /\ pc = "loop" /\ attempt = 2 /\ Len(postLog) = 2
  /\ postLog[2].outcome = "status_5" /\ HasSchedule(postLog[2])
  /\ HasSchedule(data) /\ actually_scheduled


(* ---------- RateLimiter (videogen/resource_manager.py 248-309) ---------- *)

\* Threads call wait_if_needed concurrently.  Timestamps are ticks of one
\* clock; every statement under `with self.lock` is taken with the lock free
\* and, unless it sleeps, gives the lock back in the same step.

\* resource_manager.py 269-270: the operations still inside the window
Recent(ops, t) == SelectSeq(ops, LAMBDA op_time : t - op_time < time_window)

\* resource_manager.py 271-273: what can_proceed returns after the pruning
CanProceed(ops, m) ==
  IF ops # <<>> /\ m > 0 THEN Len(ops) < m ELSE TRUE

\* resource_manager.py 294: min(self.operations)
Oldest(ops) ==
  CHOOSE o \in {ops[k] : k \in 1..Len(ops)} :
    \A k \in 1..Len(ops) : o <= ops[k]

\* resource_manager.py 293-303: how long the waiting thread sleeps
SleepTime(ops, t) ==
  IF ops # <<>>
    THEN LET wait == time_window - (t - Oldest(ops))
         IN  IF wait > 0 THEN Min(wait, sleep_cap) ELSE 0
    ELSE sleep_empty

\* resource_manager.py 285: wait_if_needed is entered, start_time is read
EnterWait(t) ==
  /\ thread_pc[t] = "idle"
  /\ start_time' = [start_time EXCEPT ![t] = now]
  /\ thread_pc' = [thread_pc EXCEPT ![t] = "check"]
  /\ UNCHANGED <<uploadVars, max_operations, operations, lock, now, wake>>

\* resource_manager.py 287 with 264-273: the loop condition calls
\* can_proceed, which prunes the list and answers under the lock
CheckProceed(t) ==
  /\ thread_pc[t] = "check"
  /\ lock = 0
  /\ operations' = Recent(operations, now)
  /\ thread_pc' = [thread_pc EXCEPT ![t] =
                     IF CanProceed(operations', max_operations)
                       THEN "record" ELSE "blocked"]
  /\ UNCHANGED <<uploadVars, max_operations, lock, now, start_time, wake>>

\* resource_manager.py 288-289: the wait has lasted longer than max_wait
GiveUp(t) ==
  /\ thread_pc[t] = "blocked"
  /\ now - start_time[t] > max_wait_arg
  /\ thread_pc' = [thread_pc EXCEPT ![t] = "idle"]
  /\ UNCHANGED <<uploadVars, max_operations, operations, lock, now,
                 start_time, wake>>

\* resource_manager.py 292-303: the thread takes the lock and sleeps while
\* holding it
Sleep(t) ==
  /\ thread_pc[t] = "blocked"
  /\ ~(now - start_time[t] > max_wait_arg)
  /\ lock = 0
  /\ lock' = t
  /\ wake' = [wake EXCEPT ![t] = now + SleepTime(operations, now)]
  /\ thread_pc' = [thread_pc EXCEPT ![t] = "sleeping"]
  /\ UNCHANGED <<uploadVars, max_operations, operations, now, start_time>>

\* resource_manager.py 301-303 and 287: the sleep is over: the lock is released and the loop condition is next
WakeUp(t) ==
  /\ thread_pc[t] = "sleeping"
  /\ now >= wake[t]
  /\ lock' = 0
  /\ thread_pc' = [thread_pc EXCEPT ![t] = "check"]
  /\ UNCHANGED <<uploadVars, max_operations, operations, now, start_time,
                 wake>>

\* resource_manager.py 305-309: the operation is recorded under the lock and
\* wait_if_needed returns True
Record(t) ==
  /\ thread_pc[t] = "record"
  /\ lock = 0
  /\ operations' = Append(operations, now)
  /\ thread_pc' = [thread_pc EXCEPT ![t] = "idle"]
  /\ UNCHANGED <<uploadVars, max_operations, lock, now, start_time, wake>>

\* time passes; a sleeping thread is not overslept
Tick ==
  /\ now < MaxTime
  /\ \A t \in Threads : thread_pc[t] = "sleeping" => now < wake[t]
  /\ now' = now + 1
  /\ UNCHANGED <<uploadVars, max_operations, operations, lock, thread_pc,
                 start_time, wake>>

RateInit ==
  /\ UploadIdle
  /\ cookies = {}
  /\ file_size = 0
  /\ \E m \in 1..MaxOperations : RateLimiter(m)

RateNext ==
  \/ \E t \in Threads : EnterWait(t)
  \/ \E t \in Threads : CheckProceed(t)
  \/ \E t \in Threads : GiveUp(t)
  \/ \E t \in Threads : Sleep(t)
  \/ \E t \in Threads : WakeUp(t)
  \/ \E t \in Threads : Record(t)
  \/ Tick

RateSpec == RateInit /\ [][RateNext]_vars

=============================================================================
